---------------------------- MODULE Spec2Model ----------------------------
(***************************************************************************)
(* Content identifiers (CID): construction, binary and text encoding and   *)
(* decoding, and the hash projection, as implemented in src/src/lib.rs.    *)
(*                                                                         *)
(* Representation                                                          *)
(*   byte string   sequence of 0..255                                      *)
(*   text          sequence of characters; a character is a one-character  *)
(*                 string, except U+00E9 which is written "U+00E9" and     *)
(*                 takes two bytes in UTF-8 (Rust's str::len counts bytes) *)
(*   Multihash     its self-describing bytes <<code, size>> \o digest      *)
(*   Cid           [version, codec, hash]                                  *)
(*   Result        [ok, cid, err]                                          *)
(***************************************************************************)
EXTENDS Integers, Sequences, FiniteSets

(***************************************************************************)
(* Bounds of the model.                                                    *)
(***************************************************************************)
\* digest fill patterns: 0 = all 0x00, 1 = all 0xff, 2.. = mixed
MaxSeed == 2
\* how many times the caller may put a path in front of a text
MaxWraps == 2
\* how many entries the hash map may hold
MaxMapSize == 2
\* values stored in the hash map
MaxValue == 2

(***************************************************************************)
(* Generic helpers.                                                        *)
(***************************************************************************)
RECURSIVE Repeat(_, _)
Repeat(x, n) == IF n = 0 THEN <<>> ELSE <<x>> \o Repeat(x, n - 1)

RECURSIVE Reverse(_)
Reverse(s) == IF s = <<>> THEN <<>> ELSE Append(Reverse(Tail(s)), Head(s))

RECURSIVE Pow2(_)
Pow2(k) == IF k = 0 THEN 1 ELSE 2 * Pow2(k - 1)

\* s[from..] in Rust slice notation, 0-based `from`
SliceFrom(s, from) == SubSeq(s, from + 1, Len(s))

StartsWith(s, p) == Len(s) >= Len(p) /\ SubSeq(s, 1, Len(p)) = p

\* number of leading elements of s equal to x
RECURSIVE LeadingCount(_, _)
LeadingCount(s, x) ==
    IF s # <<>> /\ Head(s) = x THEN 1 + LeadingCount(Tail(s), x) ELSE 0

(***************************************************************************)
(* Error kinds (error.rs) and results.                                     *)
(***************************************************************************)
Errors == {"UnknownCodec", "InputTooShort", "ParsingError", "InvalidCidVersion",
           "InvalidCidV0Codec", "InvalidCidV0Multihash"}

NoCid == [version |-> "none", codec |-> "none", hash |-> <<>>]

Ok(c) == [ok |-> TRUE, cid |-> c, err |-> "none"]
Err(e) == [ok |-> FALSE, cid |-> NoCid, err |-> e]
NoResult == [ok |-> FALSE, cid |-> NoCid, err |-> "none"]

(***************************************************************************)
(* Text: UTF-8 length and the base58btc alphabet of the text-encoding      *)
(* collaborator (multibase).                                               *)
(***************************************************************************)
EAcute == "U+00E9"

Utf8Len(c) == IF c = EAcute THEN 2 ELSE 1

\* str::len: the length in bytes
RECURSIVE StrLen(_)
StrLen(t) == IF t = <<>> THEN 0 ELSE Utf8Len(Head(t)) + StrLen(Tail(t))

B58Alphabet ==
    << "1","2","3","4","5","6","7","8","9",
       "A","B","C","D","E","F","G","H","J","K","L","M","N","P","Q","R","S","T",
       "U","V","W","X","Y","Z",
       "a","b","c","d","e","f","g","h","i","j","k","m","n","o","p","q","r","s",
       "t","u","v","w","x","y","z" >>

B58Chars == {B58Alphabet[i] : i \in 1..Len(B58Alphabet)}

B58Value(c) == (CHOOSE i \in 1..Len(B58Alphabet) : B58Alphabet[i] = c) - 1

\* digits (little-endian, base `base`) := digits * mul + carry
RECURSIVE MulAdd(_, _, _, _, _)
MulAdd(digits, i, carry, mul, base) ==
    IF i <= Len(digits)
    THEN LET c == carry + digits[i] * mul
         IN  MulAdd([digits EXCEPT ![i] = c % base], i + 1, c \div base, mul, base)
    ELSE IF carry > 0
         THEN MulAdd(Append(digits, carry % base), i + 1, carry \div base, 0, base)
         ELSE digits

\* fold MulAdd over the values input[i..] (big-endian, base `mul`); the
\* digits are computed before the next value is taken
RECURSIVE Rebase(_, _, _, _, _)
Rebase(input, i, digits, mul, base) ==
    IF i > Len(input) THEN digits
    ELSE LET next == MulAdd(digits, 1, input[i], mul, base)
         IN  IF Len(next) >= 0 THEN Rebase(input, i + 1, next, mul, base) ELSE <<>>

\* base58btc of a byte string: one "1" per leading zero byte, then the digits
Base58Encode(bytes) ==
    LET digits == Rebase(bytes, 1, <<>>, 256, 58)
        all    == Reverse(digits \o Repeat(0, LeadingCount(bytes, 0)))
    IN  [i \in 1..Len(all) |-> B58Alphabet[all[i] + 1]]

\* the inverse; fails on a character outside the alphabet
Base58Decode(t) ==
    IF \E i \in 1..Len(t) : t[i] \notin B58Chars
    THEN [ok |-> FALSE, bytes |-> <<>>]
    ELSE LET vals  == [i \in 1..Len(t) |-> B58Value(t[i])]
             bytes == Rebase(vals, 1, <<>>, 58, 256)
         IN  [ok |-> TRUE, bytes |-> Reverse(bytes \o Repeat(0, LeadingCount(vals, 0)))]

(***************************************************************************)
(* multibase: encode and decode.  Base58btc (code "z") is the base the     *)
(* identifier produces; decode is modelled for base58btc and for base32    *)
(* (code "b", lower case, no padding).  Decode of a text whose first       *)
(* character is no base code fails; decode in one of the other bases fails *)
(* when the text holds a character that is in the alphabet of no base.     *)
(* The CASE has no branch for the texts that are left: no text of the      *)
(* model is one of them.                                                   *)
(***************************************************************************)
Base58btcCode == "z"
Base32LowerCode == "b"

MultibaseCodes == {"0", "7", "9", "f", "F", "b", "B", "c", "C", "v", "V", "t", "T",
                   "h", "Z", "z", "m", "M", "u", "U"}

\* characters of the model that are in the alphabet of no base
NoBaseChars == {":", ".", EAcute}

B32Alphabet ==
    << "a","b","c","d","e","f","g","h","i","j","k","l","m","n","o","p","q","r",
       "s","t","u","v","w","x","y","z","2","3","4","5","6","7" >>

B32Chars == {B32Alphabet[i] : i \in 1..Len(B32Alphabet)}

B32Value(c) == (CHOOSE i \in 1..Len(B32Alphabet) : B32Alphabet[i] = c) - 1

\* bit j (0-based, most significant first) of the 5-bit values `vals`
B32Bit(vals, j) == (vals[(j \div 5) + 1] \div Pow2(4 - (j % 5))) % 2

\* the byte made of bits j .. j+7
B32Byte(vals, j) ==
    128 * B32Bit(vals, j) + 64 * B32Bit(vals, j + 1) + 32 * B32Bit(vals, j + 2)
        + 16 * B32Bit(vals, j + 3) + 8 * B32Bit(vals, j + 4) + 4 * B32Bit(vals, j + 5)
        + 2 * B32Bit(vals, j + 6) + B32Bit(vals, j + 7)

\* RFC 4648 base32 without padding: fails on a character outside the
\* alphabet, on a length no byte string encodes to, on non-zero trailing bits
Base32Decode(t) ==
    LET n      == Len(t)
        nbytes == (n * 5) \div 8
    IN  IF \/ \E i \in 1..n : t[i] \notin B32Chars
           \/ (n % 8) \in {1, 3, 6}
        THEN [ok |-> FALSE, bytes |-> <<>>]
        ELSE LET vals == [i \in 1..n |-> B32Value(t[i])]
             IN  IF \E j \in (nbytes * 8)..(n * 5 - 1) : B32Bit(vals, j) # 0
                 THEN [ok |-> FALSE, bytes |-> <<>>]
                 ELSE [ok |-> TRUE,
                       bytes |-> [i \in 1..nbytes |-> B32Byte(vals, 8 * (i - 1))]]

MultibaseEncodeBase58btc(bytes) == <<Base58btcCode>> \o Base58Encode(bytes)

MultibaseDecode(t) ==
    CASE t = <<>> -> [ok |-> FALSE, bytes |-> <<>>]
      [] t # <<>> /\ Head(t) \notin MultibaseCodes -> [ok |-> FALSE, bytes |-> <<>>]
      [] t # <<>> /\ Head(t) = Base58btcCode -> Base58Decode(Tail(t))
      [] t # <<>> /\ Head(t) = Base32LowerCode -> Base32Decode(Tail(t))
      [] /\ t # <<>>
         /\ Head(t) \in MultibaseCodes \ {Base58btcCode, Base32LowerCode}
         /\ \E i \in 2..Len(t) : t[i] \in NoBaseChars -> [ok |-> FALSE, bytes |-> <<>>]

(***************************************************************************)
(* integer_encoding: unsigned LEB128 varints.                              *)
(***************************************************************************)
RECURSIVE WriteVarint(_)
WriteVarint(n) ==
    IF n < 128 THEN <<n>> ELSE <<(n % 128) + 128>> \o WriteVarint(n \div 128)

\* Every number the tables of versions and codecs hold is below 2^21, so the
\* u64 a varint decodes to is kept exactly below 2^21 and as 2^21 from there on.
VarintLarge == Pow2(21)

\* (group << 7*i) added to acc in u64: the tenth group keeps its lowest bit only
VarintAdd(acc, i, group) ==
    LET g == IF i = 9 THEN group % 2 ELSE group
    IN  IF g = 0 THEN acc
        ELSE IF i >= 3 \/ acc = VarintLarge THEN VarintLarge
        ELSE acc + g * Pow2(7 * i)

\* read_varint on a cursor at 0-based `pos`: bytes are taken while the
\* continuation bit is set; the end of input before any byte is an error, the
\* end of input after a continuation byte ends the number; ten continuation
\* bytes are an error
RECURSIVE ReadVarintFrom(_, _, _, _)
ReadVarintFrom(bytes, pos, i, acc) ==
    IF i >= 10 THEN [ok |-> FALSE, value |-> 0, pos |-> pos]
    ELSE IF pos >= Len(bytes)
         THEN [ok |-> i > 0, value |-> acc, pos |-> pos]
         ELSE LET b   == bytes[pos + 1]
                  sum == VarintAdd(acc, i, b % 128)
              IN  IF b < 128 THEN [ok |-> TRUE, value |-> sum, pos |-> pos + 1]
                  ELSE ReadVarintFrom(bytes, pos + 1, i + 1, sum)

ReadVarint(bytes, pos) == ReadVarintFrom(bytes, pos, 0, 0)

(***************************************************************************)
(* multihash: a Multihash is its self-describing bytes, code, size, digest.*)
(***************************************************************************)
Identity == 0
Sha1 == 17
Sha2_256 == 18

MultihashCodes == {Identity, Sha1, Sha2_256}

\* multihash::wrap
Wrap(code, digest) == <<code, Len(digest)>> \o digest

\* Multihash::code
MhCode(mh) == mh[1]

\* multihash::decode: the bytes are a code of the table, a size and exactly
\* that many digest bytes
MultihashDecode(bytes) ==
    IF /\ Len(bytes) >= 2
       /\ bytes[1] \in MultihashCodes
       /\ bytes[2] = Len(bytes) - 2
    THEN [ok |-> TRUE, hash |-> bytes]
    ELSE [ok |-> FALSE, hash |-> <<>>]

(***************************************************************************)
(* version.rs                                                              *)
(***************************************************************************)
Versions == {"V0", "V1"}

\* u64::from(Version)
VersionNumber(v) == IF v = "V0" THEN 0 ELSE 1

\* Version::from
VersionFrom(n) ==
    CASE n = 0 -> [ok |-> TRUE, version |-> "V0", err |-> "none"]
      [] n = 1 -> [ok |-> TRUE, version |-> "V1", err |-> "none"]
      [] OTHER -> [ok |-> FALSE, version |-> "none", err |-> "InvalidCidVersion"]

\* Version::is_v0_str: the fixed length of the legacy base58 rendering and
\* its two fixed leading characters
V0StrLen == 46
V0StrStart == <<"Q", "m">>
IsV0Str(t) == StrLen(t) = V0StrLen /\ StartsWith(t, V0StrStart)

\* Version::is_v0_binary: the fixed length of the legacy digest's serialized
\* form and its code/size prefix
V0BinaryLen == 34
V0BinaryStart == <<18, 32>>
IsV0Binary(bytes) == Len(bytes) = V0BinaryLen /\ StartsWith(bytes, V0BinaryStart)

(***************************************************************************)
(* codec.rs: the table of content types.                                   *)
(***************************************************************************)
CodecNumber == [Raw |-> 85, DagProtobuf |-> 112, DagCBOR |-> 113,
                EthereumBlock |-> 144, DagJSON |-> 297]

Codecs == DOMAIN CodecNumber

\* Codec::from
CodecFrom(n) ==
    IF \E c \in Codecs : CodecNumber[c] = n
    THEN [ok |-> TRUE, codec |-> CHOOSE c \in Codecs : CodecNumber[c] = n, err |-> "none"]
    ELSE [ok |-> FALSE, codec |-> "none", err |-> "UnknownCodec"]

(***************************************************************************)
(* lib.rs: the identifier.                                                 *)
(***************************************************************************)
Cid(v, c, h) == [version |-> v, codec |-> c, hash |-> h]

\* new_v0 without the check of the digest's code
NewV0_AnyDigest(hash) == Ok(Cid("V0", "DagProtobuf", hash))

\* Cid::new_v0
NewV0(hash) ==
    IF MhCode(hash) # Sha2_256
    THEN Err("InvalidCidV0Multihash")
    ELSE Ok(Cid("V0", "DagProtobuf", hash))

\* Cid::new_v1
NewV1(codec, hash) == Cid("V1", codec, hash)

\* new with the check of the digest before the check of the codec
New_DigestFirst(version, codec, hash) ==
    IF version = "V0"
    THEN IF ~NewV0(hash).ok
         THEN NewV0(hash)
         ELSE IF codec # "DagProtobuf" THEN Err("InvalidCidV0Codec") ELSE NewV0(hash)
    ELSE Ok(NewV1(codec, hash))

\* Cid::new
New(version, codec, hash) ==
    IF version = "V0"
    THEN IF codec # "DagProtobuf"
         THEN Err("InvalidCidV0Codec")
         ELSE NewV0(hash)
    ELSE Ok(NewV1(codec, hash))

\* to_bytes_v0 with the version and codec in front, as to_bytes_v1 has
ToBytesV0_Prefixed(cid) ==
    WriteVarint(VersionNumber(cid.version))
        \o WriteVarint(CodecNumber[cid.codec])
        \o cid.hash

\* Cid::to_bytes_v0
ToBytesV0(cid) == cid.hash

\* to_bytes_v1 with the codec written before the version
ToBytesV1_CodecFirst(cid) ==
    WriteVarint(CodecNumber[cid.codec])
        \o WriteVarint(VersionNumber(cid.version))
        \o cid.hash

\* Cid::to_bytes_v1
ToBytesV1(cid) ==
    WriteVarint(VersionNumber(cid.version))
        \o WriteVarint(CodecNumber[cid.codec])
        \o cid.hash

\* Cid::to_bytes
ToBytes(cid) == IF cid.version = "V0" THEN ToBytesV0(cid) ELSE ToBytesV1(cid)

\* Cid::to_string_v0: the multibase text without its first character
ToStringV0(cid) == Tail(MultibaseEncodeBase58btc(cid.hash))

\* Cid::to_string_v1
ToStringV1(cid) == MultibaseEncodeBase58btc(ToBytes(cid))

\* Cid::to_string
ToString(cid) == IF cid.version = "V0" THEN ToStringV0(cid) ELSE ToStringV1(cid)

\* TryFrom<&[u8]> for Cid, the branch for the current format
TryFromBytesV1(bytes) ==
    LET rv == ReadVarint(bytes, 0)
        rc == ReadVarint(bytes, rv.pos)
        v  == VersionFrom(rv.value)
        c  == CodecFrom(rc.value)
        mh == MultihashDecode(SliceFrom(bytes, rc.pos))
    IN  CASE ~rv.ok -> Err("ParsingError")
          [] rv.ok /\ ~rc.ok -> Err("ParsingError")
          [] rv.ok /\ rc.ok /\ ~v.ok -> Err(v.err)
          [] rv.ok /\ rc.ok /\ v.ok /\ ~c.ok -> Err(c.err)
          [] rv.ok /\ rc.ok /\ v.ok /\ c.ok /\ ~mh.ok -> Err("ParsingError")
          [] OTHER -> New(v.version, c.codec, mh.hash)

\* TryFrom<&[u8]> for Cid
TryFromBytes(bytes) ==
    IF IsV0Binary(bytes)
    THEN LET mh == MultihashDecode(bytes)
         IN  IF mh.ok THEN NewV0(mh.hash) ELSE Err("ParsingError")
    ELSE TryFromBytesV1(bytes)

IpfsDelimiter == <<"/", "i", "p", "f", "s", "/">>

\* the 0-based indices at which `pat` occurs in `t`
Occurrences(t, pat) ==
    {i \in 0..(Len(t) - Len(pat)) : SubSeq(t, i + 1, i + Len(pat)) = pat}

Min(S) == CHOOSE x \in S : \A y \in S : x <= y
Max(S) == CHOOSE x \in S : \A y \in S : x >= y

\* str::rfind in the place of str::find: the last occurrence
RFind(t, pat) == IF Occurrences(t, pat) = {} THEN -1 ELSE Max(Occurrences(t, pat))

\* str::find: the first occurrence, -1 for None
Find(t, pat) == IF Occurrences(t, pat) = {} THEN -1 ELSE Min(Occurrences(t, pat))

\* lines 197-200 of TryFrom<&str>: the text taken as the identifier
StripPath(t) ==
    LET index == Find(t, IpfsDelimiter)
    IN  IF index >= 0 THEN SliceFrom(t, index + Len(IpfsDelimiter)) ELSE t

\* TryFrom<&str> with the length check on the text as given, before the path
\* is stripped
TryFromStr_LenOfInput(t) ==
    LET hash == StripPath(t)
        dec  == IF IsV0Str(hash)
                THEN MultibaseDecode(<<Base58btcCode>> \o hash)
                ELSE MultibaseDecode(hash)
    IN  IF StrLen(t) < 2 THEN Err("InputTooShort")
        ELSE IF ~dec.ok THEN Err("ParsingError")
        ELSE TryFromBytes(dec.bytes)

\* TryFrom<&str> for Cid
TryFromStr(t) ==
    LET hash == StripPath(t)
        dec  == IF IsV0Str(hash)
                THEN MultibaseDecode(<<Base58btcCode>> \o hash)
                ELSE MultibaseDecode(hash)
    IN  IF StrLen(hash) < 2 THEN Err("InputTooShort")
        ELSE IF ~dec.ok THEN Err("ParsingError")
        ELSE TryFromBytes(dec.bytes)

\* impl Hash over the bytes of the whole identifier, not of the digest
HashBytes_WholeCid(cid) ==
    LET cid_bytes == ToBytes(cid)
    IN  IF Len(cid_bytes) < 9
        THEN [panic |-> TRUE, window |-> <<>>]
        ELSE [panic |-> FALSE, window |-> SubSeq(cid_bytes, 2, 9)]

\* impl Hash for Cid: the bytes written to the hasher, or the panic of the
\* slice index when the digest's bytes are fewer than 9
NoWindow == <<>>
HashBytes(cid) ==
    LET cid_bytes == cid.hash
    IN  IF Len(cid_bytes) < 9
        THEN [panic |-> TRUE, window |-> NoWindow]
        ELSE [panic |-> FALSE, window |-> SubSeq(cid_bytes, 2, 9)]

(***************************************************************************)
(* The inputs the model draws.                                             *)
(***************************************************************************)
Seeds == 0..MaxSeed

\* n digest bytes: all 0x00, all 0xff, or a mixed pattern
Fill(n, seed) ==
    [i \in 1..n |-> CASE seed = 0 -> 0
                      [] seed = 1 -> 255
                      [] OTHER -> (seed * 41 + i * 37) % 256]

\* the (code, size) pairs of the digests: SHA2-256 in full and truncated,
\* SHA-1 in full and with the size of SHA2-256, short identity digests
DigestShapes == {<<Sha2_256, 32>>, <<Sha2_256, 16>>, <<Sha1, 20>>, <<Sha1, 32>>,
                 <<Identity, 1>>, <<Identity, 7>>}

Digests == {Wrap(sh[1], Fill(sh[2], seed)) : sh \in DigestShapes, seed \in Seeds}

\* the paths a caller puts in front of an identifier text
Paths == { IpfsDelimiter,
           <<"h","t","t","p","s",":","/","/","i","p","f","s",".","i","o">> \o IpfsDelimiter,
           <<"a", "Q">> }

\* texts that are no rendering of an identifier
ShortTexts == { <<>>, <<"x">>, <<EAcute>>, <<"x", "y">>, <<"z">>, <<"z", "1">>,
                IpfsDelimiter, IpfsDelimiter \o <<"x">>, IpfsDelimiter \o <<EAcute>> }

\* the texts of the tests: a legacy text, the same with characters outside
\* the base58 alphabet, and a base32 text of a V1 identifier
TestV0Text ==
    << "Q","m","d","f","T","b","B","q","B","P","Q","7","V","N","x","Z",
       "E","Y","E","j","1","4","V","m","R","u","Z","B","k","q","F","b",
       "i","w","R","e","o","g","J","g","S","1","z","R","1","n" >>
TestBadText ==
    << "Q","m","d","f","T","b","B","q","B","P","Q","7","V","N","x","Z",
       "E","Y","E","j","1","4","V","m","R","u","Z","B","k","q","F","b",
       "i","w","R","e","o","g","J","g","S","1","z","I","I","I" >>
TestBase32Text ==
    << "b","a","f","k","r","e","i","b","m","e","2","2","g","w","2","h",
       "7","y","2","h","7","t","g","2","f","h","q","o","t","a","q","j",
       "u","c","n","b","c","2","4","d","e","q","o","7","2","b","6","m",
       "k","l","2","e","g","e","z","x","h","v","y" >>
TestTexts == {TestV0Text, TestBadText, TestBase32Text}

\* SHA2-256 of "foo", the digest of the base32 text
TestFooDigest ==
    << 44,38,180,107,104,255,198,143,249,155,69,60,29,48,65,52,19,66,45,112,100,131,191,160,249,138,94,136,98,102,231,174 >>

\* the characters and bytes a caller overwrites a serialized form with
CorruptChars == {"1", "z", "I"}
CorruptValues == {0, 1, 2, 33}

\* the positions a caller overwrites: the first three, and the last (0)
CorruptPositions == {1, 2, 3, 0}
CorruptIndex(data, pos) == IF pos = 0 THEN Len(data) ELSE pos

(***************************************************************************)
(* State.                                                                  *)
(*   op       the last operation                                           *)
(*   arg      the arguments of the last constructor call                   *)
(*   res      the result of the last constructor or decoder call           *)
(*   buf      the serialized form at hand: its kind, its data, the         *)
(*            identifier it was rendered from, whether it is still exactly *)
(*            that rendering, and how many paths were put in front of it   *)
(*   ident    the local `hash` of the last TryFrom<&str> (line 197)        *)
(*   map      a HashMap<Cid, value>: entries with the hashed bytes         *)
(*   got      the result of the last HashMap::get                          *)
(*   aborted  a panic has unwound the program                              *)
(***************************************************************************)
VARIABLES op, arg, res, buf, ident, map, got, aborted

vars == <<op, arg, res, buf, ident, map, got, aborted>>

NoBuf == [kind |-> "none", data |-> <<>>, of |-> NoCid, exact |-> FALSE, wraps |-> 0]
NoValue == 0

\* the (code, size) pairs of the digests of hash map keys: two that differ in
\* the code alone, one shorter than the hashed window, one that just holds it
HashShapes == {<<Sha2_256, 32>>, <<Sha1, 32>>, <<Identity, 1>>, <<Identity, 7>>}

HashDigests == {Wrap(sh[1], Fill(sh[2], 0)) : sh \in HashShapes}

HashCodecs == {"DagProtobuf", "Raw"}

Values == 1..MaxValue

\* the caller edits (wraps, corrupts) only renderings of identifiers over the
\* digests of the model, not renderings of what an edited input decoded to
Chosen(b) == b.of # NoCid /\ b.of.hash \in Digests

Init ==
    /\ op = "init"
    /\ arg = NoCid
    /\ res = NoResult
    /\ buf = NoBuf
    /\ ident = <<>>
    /\ map = {}
    /\ got = NoValue
    /\ aborted = FALSE

\* Cid::new(version, codec, hash)
CallNew(version, codec, hash) ==
    /\ ~aborted
    /\ op' = "new"
    /\ arg' = Cid(version, codec, hash)
    /\ res' = New(version, codec, hash)
    /\ buf' = NoBuf
    /\ ident' = <<>>
    /\ got' = NoValue
    /\ UNCHANGED <<map, aborted>>

\* Cid::new_v0(hash)
CallNewV0(hash) ==
    /\ ~aborted
    /\ op' = "new_v0"
    /\ arg' = Cid("V0", "none", hash)
    /\ res' = NewV0(hash)
    /\ buf' = NoBuf
    /\ ident' = <<>>
    /\ got' = NoValue
    /\ UNCHANGED <<map, aborted>>

\* Cid::new_v1(codec, hash)
CallNewV1(codec, hash) ==
    /\ ~aborted
    /\ op' = "new_v1"
    /\ arg' = Cid("V1", codec, hash)
    /\ res' = Ok(NewV1(codec, hash))
    /\ buf' = NoBuf
    /\ ident' = <<>>
    /\ got' = NoValue
    /\ UNCHANGED <<map, aborted>>

\* cid.to_bytes() on the identifier at hand
CallToBytes ==
    /\ ~aborted
    /\ res.ok
    /\ op' = "to_bytes"
    /\ buf' = [kind |-> "bytes", data |-> ToBytes(res.cid), of |-> res.cid,
               exact |-> TRUE, wraps |-> 0]
    /\ arg' = NoCid
    /\ ident' = <<>>
    /\ UNCHANGED <<res, map, got, aborted>>

\* cid.to_string() on the identifier at hand
CallToString ==
    /\ ~aborted
    /\ res.ok
    /\ op' = "to_string"
    /\ buf' = [kind |-> "text", data |-> ToString(res.cid), of |-> res.cid,
               exact |-> TRUE, wraps |-> 0]
    /\ arg' = NoCid
    /\ ident' = <<>>
    /\ UNCHANGED <<res, map, got, aborted>>

\* the caller puts a path in front of the text
WrapPath(path) ==
    /\ ~aborted
    /\ buf.kind = "text"
    /\ Chosen(buf)
    /\ buf.wraps < MaxWraps
    /\ op' = "wrap"
    /\ buf' = [buf EXCEPT !.data = path \o @, !.exact = FALSE, !.wraps = @ + 1]
    /\ res' = NoResult
    /\ arg' = NoCid
    /\ ident' = <<>>
    /\ UNCHANGED <<map, got, aborted>>

\* the caller overwrites one character of a rendered text
CorruptText(pos, c) ==
    /\ ~aborted
    /\ buf.kind = "text"
    /\ Chosen(buf)
    /\ buf.exact
    /\ CorruptIndex(buf.data, pos) \in 1..Len(buf.data)
    /\ buf.data[CorruptIndex(buf.data, pos)] # c
    /\ op' = "corrupt"
    /\ buf' = [buf EXCEPT !.data[CorruptIndex(buf.data, pos)] = c,
                          !.exact = FALSE, !.of = NoCid]
    /\ res' = NoResult
    /\ arg' = NoCid
    /\ ident' = <<>>
    /\ UNCHANGED <<map, got, aborted>>

\* the caller overwrites one byte of rendered bytes
CorruptBytes(pos, b) ==
    /\ ~aborted
    /\ buf.kind = "bytes"
    /\ Chosen(buf)
    /\ buf.exact
    /\ CorruptIndex(buf.data, pos) \in 1..Len(buf.data)
    /\ buf.data[CorruptIndex(buf.data, pos)] # b
    /\ op' = "corrupt"
    /\ buf' = [buf EXCEPT !.data[CorruptIndex(buf.data, pos)] = b,
                          !.exact = FALSE, !.of = NoCid]
    /\ res' = NoResult
    /\ arg' = NoCid
    /\ ident' = <<>>
    /\ UNCHANGED <<map, got, aborted>>

\* the caller supplies a text of its own
SupplyText(t) ==
    /\ ~aborted
    /\ op' = "supply"
    /\ buf' = [kind |-> "text", data |-> t, of |-> NoCid, exact |-> FALSE, wraps |-> 0]
    /\ res' = NoResult
    /\ arg' = NoCid
    /\ ident' = <<>>
    /\ UNCHANGED <<map, got, aborted>>

\* Cid::try_from(bytes)
CallTryFromBytes ==
    /\ ~aborted
    /\ buf.kind = "bytes"
    /\ op' = "try_from_bytes"
    /\ res' = TryFromBytes(buf.data)
    /\ arg' = NoCid
    /\ ident' = <<>>
    /\ UNCHANGED <<buf, map, got, aborted>>

\* Cid::try_from(text)
CallTryFromStr ==
    /\ ~aborted
    /\ buf.kind = "text"
    /\ op' = "try_from_str"
    /\ res' = TryFromStr(buf.data)
    /\ ident' = StripPath(buf.data)
    /\ arg' = NoCid
    /\ UNCHANGED <<buf, map, got, aborted>>

Next ==
    \/ \E v \in Versions, c \in Codecs, h \in Digests : CallNew(v, c, h)
    \/ \E h \in Digests : CallNewV0(h)
    \/ \E c \in Codecs, h \in Digests : CallNewV1(c, h)
    \/ CallToBytes
    \/ CallToString
    \/ \E p \in Paths : WrapPath(p)
    \/ \E pos \in CorruptPositions, c \in CorruptChars : CorruptText(pos, c)
    \/ \E pos \in CorruptPositions, b \in CorruptValues : CorruptBytes(pos, b)
    \/ \E t \in ShortTexts \cup TestTexts : SupplyText(t)
    \/ CallTryFromBytes
    \/ CallTryFromStr

Spec == Init /\ [][Next]_vars

(***************************************************************************)
(* HashMap<Cid, value>.  The hasher sees only what impl Hash writes, so an *)
(* entry is found among the entries with the same hashed bytes, by key     *)
(* equality.  insert always hashes its key; get hashes its key only when   *)
(* the map holds an entry: on an empty map it returns None at once.        *)
(***************************************************************************)
\* whether HashMap::get calls impl Hash for its key
GetHashes(m) == m # {}

Bucket(m, hashed) == {e \in m : e.hashed = hashed}

\* HashMap::get, for a key whose hashing, when it is hashed, does not panic
MapGet(m, key) ==
    IF ~GetHashes(m) THEN NoValue
    ELSE LET hits == {e \in Bucket(m, HashBytes(key).window) : e.key = key}
         IN  IF hits = {} THEN NoValue ELSE (CHOOSE e \in hits : TRUE).val

\* HashMap::insert, for a key whose hashing does not panic
MapInsert(m, key, value) ==
    LET hashed == HashBytes(key).window
        same   == {e \in Bucket(m, hashed) : e.key = key}
    IN  (m \ same) \cup {[hashed |-> hashed, key |-> key, val |-> value]}

\* map.insert(cid.clone(), value) with the identifier at hand
HashInsert(value) ==
    /\ ~aborted
    /\ res.ok
    /\ op' = "insert"
    /\ IF HashBytes(res.cid).panic
       THEN aborted' = TRUE /\ map' = map
       ELSE /\ Cardinality(MapInsert(map, res.cid, value)) <= MaxMapSize
            /\ map' = MapInsert(map, res.cid, value)
            /\ aborted' = FALSE
    /\ got' = NoValue
    /\ UNCHANGED <<arg, res, buf, ident>>

\* map.get(&cid) with the identifier at hand
HashGet ==
    /\ ~aborted
    /\ res.ok
    /\ op' = "get"
    /\ IF GetHashes(map) /\ HashBytes(res.cid).panic
       THEN aborted' = TRUE /\ got' = NoValue
       ELSE aborted' = FALSE /\ got' = MapGet(map, res.cid)
    /\ UNCHANGED <<arg, res, buf, ident, map>>

NextHash ==
    \/ \E v \in Versions, c \in HashCodecs, h \in HashDigests : CallNew(v, c, h)
    \/ \E val \in Values : HashInsert(val)
    \/ HashGet

SpecHash == Init /\ [][NextHash]_vars

(***************************************************************************)
(* Properties.                                                             *)
(***************************************************************************)
IsDecode == op \in {"try_from_bytes", "try_from_str"}

\* the text after the last "/ipfs/", the whole text when there is none
AfterLast(t) ==
    IF Occurrences(t, IpfsDelimiter) = {} THEN t
    ELSE SliceFrom(t, Max(Occurrences(t, IpfsDelimiter)) + Len(IpfsDelimiter))

\* t is the legacy rendering of a SHA2-256 digest of 32 bytes
IsLegacyRendering(t) ==
    LET d == Base58Decode(t)
    IN  /\ d.ok
        /\ Len(d.bytes) = 34
        /\ d.bytes[1] = Sha2_256
        /\ d.bytes[2] = 32
        /\ Base58Encode(d.bytes) = t

\* the expectations of src/tests/lib.rs on the texts of the tests
TestsPass ==
    (op = "try_from_str") =>
        /\ ident = TestV0Text => (res.ok /\ res.cid.version = "V0"
                                    /\ ToString(res.cid) = TestV0Text)
        /\ ident = TestBadText => res = Err("ParsingError")
        /\ buf.data = TestBase32Text =>
                res = Ok([version |-> "V1", codec |-> "Raw",
                          hash |-> Wrap(Sha2_256, TestFooDigest)])
        /\ buf.data = <<>> => res = Err("InputTooShort")

\* C1: every identifier a constructor or a decoder returns, when its version
\* is V0, has the codec DagProtobuf and a SHA2-256 digest.
C1_LegacyInvariant ==
    (res.ok /\ res.cid.version = "V0")
        => (res.cid.codec = "DagProtobuf" /\ res.cid.hash[1] = Sha2_256)

\* a V0 identifier returned by the decoder's current-format branch
C1_Witness ==
    /\ op = "try_from_bytes"
    /\ res.ok
    /\ res.cid.version = "V0"
    /\ Len(buf.data) # V0BinaryLen

\* C2: for an identifier of version V1, over any codec of the table and any
\* digest, decoding its to_bytes and decoding its to_string both succeed and
\* give the identifier back.
C2_RoundTripV1 ==
    (IsDecode /\ buf.exact /\ buf.of.version = "V1") => res = Ok(buf.of)

\* the text of a V1 identifier with a two-byte codec number was decoded
C2_Witness ==
    /\ op = "try_from_str"
    /\ buf.exact
    /\ buf.of.version = "V1"
    /\ buf.of.codec = "DagJSON"
    /\ res.ok

\* C3: for a V0 identifier over a SHA2-256 digest of 32 bytes, to_bytes is the
\* digest's self-describing bytes and nothing else, and decoding its to_bytes
\* and decoding its to_string both succeed and give back the V0 identifier
\* with the codec DagProtobuf and the same digest.
C3_RoundTripV0 ==
    (buf.exact /\ buf.of.version = "V0" /\ buf.of.hash[1] = Sha2_256 /\ buf.of.hash[2] = 32)
        => /\ buf.kind = "bytes" => buf.data = buf.of.hash
           /\ IsDecode => /\ res = Ok(buf.of)
                          /\ res.cid = [version |-> "V0", codec |-> "DagProtobuf",
                                        hash |-> buf.of.hash]

\* the text of a V0 identifier over a 32-byte digest was decoded
C3_Witness ==
    /\ op = "try_from_str"
    /\ buf.exact
    /\ buf.of.version = "V0"
    /\ Len(buf.of.hash) = 34
    /\ res = Ok(buf.of)

\* C4 as stated: the text taken as the identifier in decode-from-text is what
\* follows the LAST "/ipfs/" of the input, the whole input when it has none.
C4_AfterLastDelimiter ==
    op = "try_from_str" => ident = AfterLast(buf.data)

\* C4 amended: the text taken as the identifier in decode-from-text is what
\* follows the FIRST "/ipfs/" of the input, the whole input when it has none;
\* a later "/ipfs/" stays in the identifier text.
C4_AfterFirstDelimiter ==
    op = "try_from_str" =>
        LET occ == Occurrences(buf.data, IpfsDelimiter)
        IN  IF occ = {} THEN ident = buf.data
            ELSE \E i \in occ :
                    /\ \A j \in occ : i <= j
                    /\ buf.data = SubSeq(buf.data, 1, i) \o IpfsDelimiter \o ident

\* a text with two delimiters was decoded, and the second stayed in the
\* identifier text
C4_Witness ==
    /\ op = "try_from_str"
    /\ Cardinality(Occurrences(buf.data, IpfsDelimiter)) >= 2
    /\ Occurrences(ident, IpfsDelimiter) # {}

\* C5: new(version, codec, digest): for V0 with a codec other than DagProtobuf
\* the invalid-legacy-codec error whatever the digest; for V0 with DagProtobuf
\* and a digest that is not SHA2-256 the invalid-legacy-digest error; for V0
\* with DagProtobuf and a SHA2-256 digest the identifier; for V1 always the
\* identifier.
C5_NewOutcome ==
    op = "new" =>
        CASE arg.version = "V0" /\ arg.codec # "DagProtobuf" ->
                res = Err("InvalidCidV0Codec")
          [] arg.version = "V0" /\ arg.codec = "DagProtobuf" /\ arg.hash[1] # Sha2_256 ->
                res = Err("InvalidCidV0Multihash")
          [] arg.version = "V0" /\ arg.codec = "DagProtobuf" /\ arg.hash[1] = Sha2_256 ->
                res = Ok([version |-> "V0", codec |-> "DagProtobuf", hash |-> arg.hash])
          [] arg.version = "V1" ->
                res = Ok([version |-> "V1", codec |-> arg.codec, hash |-> arg.hash])

\* new was called for V0 with a wrong codec and a wrong digest, and the codec
\* error came
C5_Witness ==
    /\ op = "new"
    /\ arg.version = "V0"
    /\ arg.codec # "DagProtobuf"
    /\ arg.hash[1] # Sha2_256
    /\ res = Err("InvalidCidV0Codec")

\* C6 as stated: decode-from-text fails with input-too-short whenever the text
\* left after the path is stripped has fewer than 2 characters.
C6_FewerThanTwoChars ==
    (op = "try_from_str" /\ Len(ident) < 2) => res = Err("InputTooShort")

\* C6 amended: decode-from-text fails with input-too-short whenever the text
\* left after the path is stripped has fewer than 2 bytes in UTF-8; the check
\* is on the stripped text and comes before any base decoding.
C6_FewerThanTwoBytes ==
    (op = "try_from_str" /\ StrLen(ident) < 2) => res = Err("InputTooShort")

\* "/ipfs/x" was decoded: the input is long, the stripped text is short
C6_Witness ==
    /\ op = "try_from_str"
    /\ buf.data = IpfsDelimiter \o <<"x">>
    /\ ident = <<"x">>
    /\ res = Err("InputTooShort")

\* C7 as stated: a text of legacy shape (46 bytes, starting "Qm") that is not
\* the rendering of a valid legacy digest fails in decode-from-text with the
\* parsing error and with no other error.
C7_LegacyShapeFailsWithParsingError ==
    (op = "try_from_str" /\ IsV0Str(ident) /\ ~IsLegacyRendering(ident))
        => res = Err("ParsingError")

\* C8: the bytes hashed for an identifier are bytes 1..9 (0-based, end
\* excluded) of its digest's self-describing form, whatever its version and
\* codec; identifiers that are equal hash equal, so the map returns for an
\* identifier the value stored under an equal one.
C8_EqualityHashContract ==
    /\ \A e \in map : e.hashed = SubSeq(e.key.hash, 2, 9)
    /\ \A e1, e2 \in map : e1.key.hash = e2.key.hash => e1.hashed = e2.hashed
    /\ \A e \in map : MapGet(map, e.key) = e.val
    /\ (op = "get" /\ ~aborted) =>
            \A e \in map : e.key = res.cid =>
                /\ HashBytes(res.cid).window = e.hashed
                /\ got = e.val

\* a value was found in a map that holds two keys with the same hashed bytes
C8_Witness ==
    /\ op = "get"
    /\ got # NoValue
    /\ \E e1, e2 \in map : e1.key # e2.key /\ e1.hashed = e2.hashed

\* C9 as stated: for every identifier the constructors return, to_bytes is of
\* the legacy form exactly when the version is V0, and decoding it succeeds
\* with the identifier's version.
C9_VersionFromBytes ==
    /\ (op = "to_bytes" /\ buf.exact) =>
            (IsV0Binary(buf.data) <=> buf.of.version = "V0")
    /\ (op = "try_from_bytes" /\ buf.exact) =>
            (res.ok /\ res.cid.version = buf.of.version)

\* C10 as stated: every identifier that is hashed has a digest whose
\* self-describing form is of 9 bytes or more, and the hashing never aborts.
C10_HashNeverAborts ==
    /\ (op = "insert" \/ (op = "get" /\ GetHashes(map))) => Len(res.cid.hash) >= 9
    /\ ~aborted

=============================================================================
